---------------------------- MODULE Spec2Model ----------------------------
(***************************************************************************)
(* A model of morris (src/morris/__init__.py): the signal class with its   *)
(* ordered listener records, connect / disconnect / fire, the descriptor   *)
(* protocol that realizes one Signal per owning instance, and the          *)
(* per-object listener index kept for bound-method listeners.              *)
(*                                                                         *)
(* Objects live in a heap: `sigs` is the sequence of signal objects ever   *)
(* constructed and a signal's identity is its index in that sequence.      *)
(* A running fire() is a frame on `stack`; user code (the top-level caller *)
(* or the body of the listener that is currently being invoked) may call   *)
(* connect and disconnect.                                                 *)
(***************************************************************************)
EXTENDS Integers, Sequences, FiniteSets, TLC

VARIABLES
    sigs,           \* heap of signal objects: [name, first_responder, listeners]
    obj_signals,    \* instance.__signals__ of every owning instance
    obj_listeners,  \* listener_object.__listeners__ of every receiver object
    stack,          \* the running fire() calls, innermost last
    result,         \* how the last completed call ended (what its caller sees)
    testcase        \* the SignalTestCase object: _events_seen and its cleanups

vars == <<sigs, obj_signals, obj_listeners, stack, result, testcase>>

(***************************************************************************)
(* Bounds of the model.                                                    *)
(***************************************************************************)
\* Spec offers connect while the signal holds fewer records than this
MaxListeners == 3
\* SpecDescr offers connect while a signal holds fewer records than this
MaxDescrListeners == 3

(***************************************************************************)
(* Values.                                                                 *)
(***************************************************************************)
None == "None"

\* a plain function: inspect.ismethod() is False for it
Function(f) == [kind |-> "function", self |-> None, func |-> f]

\* a bound method obj.f: inspect.ismethod() is True, __self__ is obj
Method(obj, f) == [kind |-> "method", self |-> obj, func |-> f]

\* morris.boundmethod(instance, func), the adapter __get__ connects
boundmethod(instance, func) ==
    [kind |-> "boundmethod", self |-> instance, func |-> func]

ismethod(listener) == listener.kind = "method"

\* collections.namedtuple('listenerinfo', 'listener pass_signal')
listenerinfo(listener, pass_signal) ==
    [listener |-> listener, pass_signal |-> pass_signal]

\* an object attribute that holds a dict and may be absent (hasattr)
NoAttr == [has |-> FALSE, map |-> [k \in {} |-> 0]]
Attr(m) == [has |-> TRUE, map |-> m]
EmptyDict == [k \in {} |-> 0]
DictSet(d, k, v) == [x \in (DOMAIN d) \cup {k} |-> IF x = k THEN v ELSE d[x]]
DictDel(d, k) == [x \in (DOMAIN d) \ {k} |-> d[x]]
\* collections.defaultdict(list).__getitem__: a missing key reads as []
DefaultGet(d, k) == IF k \in DOMAIN d THEN d[k] ELSE <<>>

\* a SignalTestCase object before watchSignal: no _events_seen attribute,
\* nothing watched, no cleanup registered
NoTestCase ==
    [has_events |-> FALSE, events_seen |-> <<>>, watched |-> <<>>,
     cleanups |-> <<>>]

\* the objects whose bound methods are connected as listeners
Receivers == {"r1"}
\* the instances of the class that declares signals
Instances == {"a", "b"}

(***************************************************************************)
(* list operations                                                         *)
(***************************************************************************)
Contains(seq, x) == \E i \in 1..Len(seq) : seq[i] = x

\* list.index(x): the position of the first element equal to x
IndexOf(seq, x) == CHOOSE i \in 1..Len(seq) :
                       /\ seq[i] = x
                       /\ \A j \in 1..(i - 1) : seq[j] # x

RemoveAt(seq, i) == SubSeq(seq, 1, i - 1) \o SubSeq(seq, i + 1, Len(seq))

\* list.remove(x): the first element equal to x is removed.  When none is
\* equal Python raises ValueError and the list is as before; the callers
\* decide that case before they use the new list.
ListRemoveLast(seq, x) ==
    IF Contains(seq, x)
    THEN RemoveAt(seq, CHOOSE i \in 1..Len(seq) :
                           /\ seq[i] = x
                           /\ \A j \in (i + 1)..Len(seq) : seq[j] # x)
    ELSE seq
ListRemove(seq, x) ==
    IF Contains(seq, x) THEN RemoveAt(seq, IndexOf(seq, x)) ELSE seq

(***************************************************************************)
(* result of a call, as its caller sees it                                 *)
(***************************************************************************)
\* op: the call; status: "ok", "returned" or the error raised; value: the
\* signal returned (get) or called on; invoked / total: the listeners a
\* fire() invoked, out of those registered when it was entered
Result(op, status, value) ==
    [op |-> op, status |-> status, value |-> value, invoked |-> 0, total |-> 0]

Top == stack[Len(stack)]
Pop == SubSeq(stack, 1, Len(stack) - 1)

\* user code runs: the top-level caller, or the listener being invoked
UserCode == IF stack = <<>> THEN TRUE ELSE Top.running

(***************************************************************************)
(* signal.__init__                                                         *)
(***************************************************************************)
\* Signal(name): a signal constructed from a name
SignalFromName(name) ==
    [name |-> name, first_responder |-> None, listeners |-> <<>>]

\* the identifiers a callable carries: __name__, and __qualname__ where the
\* interpreter provides it (None here when hasattr(fn, '__qualname__') is
\* False); on_foo is defined in the body of class C
FnName(fn) == fn.func
FnQualname(fn) == IF fn.func = "on_foo" THEN "C.on_foo" ELSE None

\* _get_fn_name(fn)
get_fn_name_plain(fn) == FnName(fn)
get_fn_name(fn) ==
    IF FnQualname(fn) # None THEN FnQualname(fn) ELSE FnName(fn)

\* the truth value of an optional string: None and '' are false
Truthy(x) == x # None /\ x # ""

\* signal(fn, pass_signal, signal_name): a signal constructed from a callable
\* name = signal_name or _get_fn_name(first_responder)
SignalFromCallable(fn, pass_signal, signal_name) ==
    [name |-> IF Truthy(signal_name) THEN signal_name ELSE get_fn_name(fn),
     first_responder |-> fn,
     listeners |-> <<listenerinfo(fn, pass_signal)>>]

\* signal.__init__ when name_or_first_responder is a string; pass_signal
\* and signal_name play no part
init_name(name, pass_signal, signal_name) ==
    /\ UserCode
    /\ sigs' = Append(sigs, SignalFromName(name))
    /\ result' = Result("__init__", "ok", Len(sigs) + 1)
    /\ UNCHANGED <<obj_signals, obj_listeners, stack, testcase>>

\* signal.__init__ when name_or_first_responder is a callable
init_callable(fn, pass_signal, signal_name) ==
    /\ UserCode
    /\ sigs' = Append(sigs, SignalFromCallable(fn, pass_signal, signal_name))
    /\ result' = Result("__init__", "ok", Len(sigs) + 1)
    /\ UNCHANGED <<obj_signals, obj_listeners, stack, testcase>>

(***************************************************************************)
(* signal.connect                                                          *)
(***************************************************************************)
\* self._listeners.append(info)
ConnectListenersUnique(ls, listener, pass_signal) ==
    IF Contains(ls, listenerinfo(listener, pass_signal))
    THEN ls
    ELSE Append(ls, listenerinfo(listener, pass_signal))
ConnectListeners(ls, listener, pass_signal) ==
    Append(ls, listenerinfo(listener, pass_signal))

\* listener_object.__listeners__[listener].append(self)
ConnectIndex(idx, s, listener) ==
    IF ismethod(listener)
    THEN LET obj == listener.self
             d   == IF idx[obj].has THEN idx[obj].map ELSE EmptyDict
         IN  [idx EXCEPT ![obj] =
                 Attr(DictSet(d, listener, Append(DefaultGet(d, listener), s)))]
    ELSE idx

connect(s, listener, pass_signal) ==
    /\ UserCode
    /\ sigs' = [sigs EXCEPT ![s].listeners =
                   ConnectListeners(@, listener, pass_signal)]
    /\ obj_listeners' = ConnectIndex(obj_listeners, s, listener)
    /\ result' = Result("connect", "ok", s)
    /\ UNCHANGED <<obj_signals, stack, testcase>>

(***************************************************************************)
(* signal.disconnect                                                       *)
(***************************************************************************)
\* listener_object.__listeners__[listener].remove(self), then the entry is
\* deleted when its list became empty; only reached when the list holds self
DisconnectIndexKeepsEntry(idx, s, listener) ==
    LET obj  == listener.self
        d    == idx[obj].map
    IN  [idx EXCEPT ![obj] =
            Attr(DictSet(d, listener, ListRemove(DefaultGet(d, listener), s)))]
DisconnectIndex(idx, s, listener) ==
    LET obj  == listener.self
        d    == idx[obj].map
        rest == ListRemove(DefaultGet(d, listener), s)
    IN  [idx EXCEPT ![obj] =
            Attr(IF Len(rest) = 0
                 THEN DictDel(d, listener)
                 ELSE DictSet(d, listener, rest))]

\* the defaultdict lookup of a missing key leaves an empty entry behind
\* before list.remove raises
DisconnectIndexMissing(idx, listener) ==
    LET obj == listener.self
    IN  [idx EXCEPT ![obj] = Attr(DictSet(idx[obj].map, listener, <<>>))]

\* self._listeners.remove(info) finds a record: one equal to info in both
\* fields (tuple equality)
PresentAnyFlag(ls, info) == \E i \in 1..Len(ls) : ls[i].listener = info.listener
Present(ls, info) == Contains(ls, info)

\* signal.disconnect(listener, pass_signal) as a function of the state it
\* runs in: the signals and the listener index it leaves, and how it ends
DisconnectOutcome(sg, idx, s, listener, pass_signal) ==
    LET info == listenerinfo(listener, pass_signal)
    IN  IF ~Present(sg[s].listeners, info)
        THEN \* self._listeners.remove(info) raises ValueError
             [sigs |-> sg, idx |-> idx, status |-> "ValueError"]
        ELSE LET removed == [sg EXCEPT ![s].listeners = ListRemove(@, info)]
             IN  IF ismethod(listener) /\ idx[listener.self].has
                 THEN IF Contains(DefaultGet(idx[listener.self].map, listener), s)
                      THEN [sigs |-> removed,
                            idx |-> DisconnectIndex(idx, s, listener),
                            status |-> "ok"]
                      ELSE [sigs |-> removed,
                            idx |-> DisconnectIndexMissing(idx, listener),
                            status |-> "ValueError"]
                 ELSE [sigs |-> removed, idx |-> idx, status |-> "ok"]

disconnect(s, listener, pass_signal) ==
    LET out == DisconnectOutcome(sigs, obj_listeners, s, listener, pass_signal)
    IN
    /\ UserCode
    /\ sigs' = out.sigs
    /\ obj_listeners' = out.idx
    /\ result' = Result("disconnect", out.status, s)
    /\ UNCHANGED <<obj_signals, stack, testcase>>

(***************************************************************************)
(* signal.fire                                                             *)
(***************************************************************************)
\* keyword arguments are a set of <<key, value>> pairs
HasKey(kwargs, k) == \E p \in kwargs : p[1] = k

\* what fire() is called with: args, a tuple, and kwargs
FireInputs ==
    { [args |-> <<1>>, kwargs |-> {<<"arg2", 2>>}],
      [args |-> <<1>>, kwargs |-> {<<"arg2", 2>>, <<"signal", 100>>}] }

\* what a listener may raise
Errors == {"E1", "E2"}

\* the list the for loop walks: the copy self._listeners[:] made on entry
IterListLive(frame) == sigs[frame.sig].listeners
IterList(frame) == frame.snapshot

\* the keyword arguments of the call of one listener:
\* info.listener(*args, signal=self, **kwargs) or info.listener(*args, **kwargs)
CallKwargsNever(info, s, kwargs) == kwargs
CallKwargs(info, s, kwargs) ==
    IF info.pass_signal THEN kwargs \cup {<<"signal", s>>} ELSE kwargs

\* one invocation, as the listener observes it; registered records whether
\* the record was still in the signal's list when it was called
Call(info, frame) ==
    [listener   |-> info.listener,
     args       |-> frame.args,
     kwargs     |-> CallKwargs(info, frame.sig, frame.kwargs),
     registered |-> Contains(sigs[frame.sig].listeners, info)]

FireResult(status, frame, invoked) ==
    [op |-> "fire", status |-> status, value |-> frame.sig,
     invoked |-> invoked, total |-> Len(frame.listeners_at_start)]

\* self._listeners[:], the copy fire() makes on entry
RECURSIVE Dedup(_)
Dedup(ls) ==
    IF ls = <<>> THEN <<>>
    ELSE LET front == Dedup(SubSeq(ls, 1, Len(ls) - 1))
             last  == ls[Len(ls)]
         IN  IF Contains(front, last) THEN front ELSE Append(front, last)
CopyDedup(ls) == Dedup(ls)
Copy(ls) == ls

\* the frame of a fire(args, kwargs) that is entered:
\* for info in self._listeners[:]
NewFrameShared(s, input) ==
    [sig      |-> s,
     snapshot |-> IF stack # <<>> /\ Top.sig = s
                  THEN Top.snapshot ELSE Copy(sigs[s].listeners),
     listeners_at_start |-> sigs[s].listeners,
     i        |-> 1,
     args     |-> input.args,
     kwargs   |-> input.kwargs,
     invoked  |-> <<>>,
     running  |-> FALSE,
     events_at_start |-> Len(testcase.events_seen)]
NewFrame(s, input) ==
    [sig      |-> s,
     snapshot |-> Copy(sigs[s].listeners),
     listeners_at_start |-> sigs[s].listeners,
     i        |-> 1,
     args     |-> input.args,
     kwargs   |-> input.kwargs,
     invoked  |-> <<>>,
     running  |-> FALSE,
     events_at_start |-> Len(testcase.events_seen)]

fire(s, input) ==
    /\ UserCode
    /\ stack' = Append(stack, NewFrame(s, input))
    /\ result' = Result("fire", "running", s)
    /\ UNCHANGED <<sigs, obj_signals, obj_listeners, testcase>>

\* the loop body: the next listener of the list is called.  Python rejects
\* a call that gives the keyword signal twice with TypeError before the
\* listener is entered; fire() does not catch it.
fire_call ==
    /\ stack # <<>>
    /\ ~Top.running
    /\ Top.i <= Len(IterList(Top))
    /\ LET info == IterList(Top)[Top.i]
       IN  IF info.pass_signal /\ HasKey(Top.kwargs, "signal")
           THEN /\ stack' = Pop
                /\ result' = FireResult("TypeError", Top, Len(Top.invoked))
           ELSE /\ stack' = [stack EXCEPT ![Len(stack)] =
                                [@ EXCEPT !.running = TRUE,
                                          !.invoked = Append(@, Call(info, Top))]]
                /\ UNCHANGED result
    /\ UNCHANGED <<sigs, obj_signals, obj_listeners, testcase>>

\* the listener being invoked returns; the loop moves on
listener_return ==
    /\ stack # <<>>
    /\ Top.running
    /\ stack' = [stack EXCEPT ![Len(stack)] =
                    [@ EXCEPT !.running = FALSE, !.i = @ + 1]]
    /\ result' = Result("fire", "running", Top.sig)
    /\ UNCHANGED <<sigs, obj_signals, obj_listeners, testcase>>

\* what fire() does with an error e of the listener it is invoking: nothing,
\* there is no try block, so e leaves fire() as it is
PropagatesWrapped(e) == "RuntimeError"
Propagates(e) == e
\* the listener being invoked raises e
listener_raise_drops(e) ==
    /\ stack # <<>>
    /\ Top.running
    /\ stack' = Pop
    /\ sigs' = [sigs EXCEPT ![Top.sig].listeners =
                   ListRemove(@, IterList(Top)[Top.i])]
    /\ result' = FireResult(Propagates(e), Top, Len(Top.invoked))
    /\ UNCHANGED <<obj_signals, obj_listeners, testcase>>
listener_raise(e) ==
    /\ stack # <<>>
    /\ Top.running
    /\ stack' = Pop
    /\ result' = FireResult(Propagates(e), Top, Len(Top.invoked))
    /\ UNCHANGED <<sigs, obj_signals, obj_listeners, testcase>>

\* the for loop is exhausted: fire() returns None
fire_return ==
    /\ stack # <<>>
    /\ ~Top.running
    /\ Top.i > Len(IterList(Top))
    /\ stack' = Pop
    /\ result' = FireResult("returned", Top, Len(Top.invoked))
    /\ UNCHANGED <<sigs, obj_signals, obj_listeners, testcase>>

(***************************************************************************)
(* signal.__call__(self, *args, **kwargs)                                  *)
(***************************************************************************)
\* what a signal is called with: positional and keyword arguments
CallInputs ==
    FireInputs \cup { [args |-> <<1>>, kwargs |-> {<<"self", 3>>}] }

\* Python binds the arguments of the call to the parameters self, *args
\* and **kwargs before the body runs: a keyword argument named self gives
\* the parameter self a second value, which is a TypeError
BindsCall(input) == ~HasKey(input.kwargs, "self")

\* self.fire(args, kwargs): what the body passes on
ForwardedArgsOnly(input) == [args |-> input.args, kwargs |-> {}]
Forwarded(input) == [args |-> input.args, kwargs |-> input.kwargs]

signal_call(s, input) ==
    /\ UserCode
    /\ IF BindsCall(input)
       THEN /\ stack' = Append(stack, NewFrame(s, Forwarded(input)))
            /\ result' = Result("call", "running", s)
       ELSE /\ result' = Result("call", "TypeError", s)
            /\ UNCHANGED stack
    /\ UNCHANGED <<sigs, obj_signals, obj_listeners, testcase>>

(***************************************************************************)
(* connect and disconnect called from another thread.  The calling thread  *)
(* is not the one whose fire() calls are on `stack`, so the calls may come *)
(* at any point of a running fire(); list.append and list.remove are each  *)
(* one step, as is the copy fire() takes.  The outcome of the call is seen *)
(* by the other thread only.                                               *)
(***************************************************************************)
thread_connect(s, listener, pass_signal) ==
    /\ sigs' = [sigs EXCEPT ![s].listeners =
                   ConnectListeners(@, listener, pass_signal)]
    /\ obj_listeners' = ConnectIndex(obj_listeners, s, listener)
    /\ UNCHANGED <<obj_signals, stack, result, testcase>>

thread_disconnect(s, listener, pass_signal) ==
    LET out == DisconnectOutcome(sigs, obj_listeners, s, listener, pass_signal)
    IN
    /\ sigs' = out.sigs
    /\ obj_listeners' = out.idx
    /\ UNCHANGED <<obj_signals, stack, result, testcase>>

(***************************************************************************)
(* signal.__get__: the descriptor protocol.  d is the signal object that   *)
(* is the class attribute (the declaration), instance is the object the    *)
(* attribute is read through, None when it is read through the class.      *)
(***************************************************************************)
\* if self._name not in instance.__signals__
NotRealizedAlways(cache, name) == TRUE
NotRealized(cache, name) == name \notin DOMAIN cache

\* signal = Signal(self._name)
\* signal.connect(boundmethod(instance, self._first_responder))
RealizeFromTemplate(d, instance) ==
    [SignalFromName(sigs[d].name) EXCEPT !.listeners = sigs[d].listeners]
Realize(d, instance) ==
    [SignalFromName(sigs[d].name) EXCEPT !.listeners =
        ConnectListeners(@, boundmethod(instance, sigs[d].first_responder),
                         FALSE)]

\* instance.__signals__, once __get__ has made sure the attribute exists
SignalsOfClass(instance) ==
    IF \E o \in Instances : obj_signals[o].has
    THEN obj_signals[CHOOSE o \in Instances : obj_signals[o].has].map
    ELSE EmptyDict
Signals(instance) ==
    IF obj_signals[instance].has THEN obj_signals[instance].map ELSE EmptyDict

\* if instance is None: return self
ClassAccessNone(d) == 0
ClassAccess(d) == d

get(d, instance) ==
    /\ UserCode
    /\ IF instance = None
       THEN /\ result' = Result("get", "ok", ClassAccess(d))
            /\ UNCHANGED <<sigs, obj_signals, obj_listeners>>
       ELSE LET cache == Signals(instance)
                name  == sigs[d].name
            IN  IF NotRealized(cache, name)
                THEN /\ sigs' = Append(sigs, Realize(d, instance))
                     /\ obj_listeners' =
                            ConnectIndex(obj_listeners, Len(sigs) + 1,
                                boundmethod(instance, sigs[d].first_responder))
                     /\ obj_signals' = [obj_signals EXCEPT ![instance] =
                            Attr(DictSet(cache, name, Len(sigs) + 1))]
                     /\ result' = Result("get", "ok", Len(sigs) + 1)
                ELSE /\ obj_signals' = [obj_signals EXCEPT ![instance] =
                            Attr(cache)]
                     /\ result' = Result("get", "ok", cache[name])
                     /\ UNCHANGED <<sigs, obj_listeners>>
    /\ UNCHANGED <<stack, testcase>>

(***************************************************************************)
(* signal.__set__ and signal.__delete__: instance.attr = value and         *)
(* del instance.attr, for the attribute the declaration d is bound to.     *)
(***************************************************************************)
\* raise AttributeError("You cannot overwrite signals")
SetOutcomeAccepts(instance, value) == "ok"
SetOutcome(instance, value) == "AttributeError"

set(d, instance, value) ==
    /\ UserCode
    /\ result' = Result("set", SetOutcome(instance, value), d)
    /\ UNCHANGED <<sigs, obj_signals, obj_listeners, stack, testcase>>

\* raise AttributeError("You cannot delete signals")
DeleteOutcome(instance) == "AttributeError"

delete(d, instance) ==
    /\ UserCode
    /\ result' = Result("delete", DeleteOutcome(instance), d)
    /\ UNCHANGED <<sigs, obj_signals, obj_listeners, stack, testcase>>

(***************************************************************************)
(* remove_signals_listeners(instance)                                      *)
(***************************************************************************)
\* list(instance.__listeners__): the keys of the index, copied before the
\* loop; a dict hands them out in an order the caller does not choose
KeyOrders(d) ==
    { q \in [1..Cardinality(DOMAIN d) -> DOMAIN d] :
          \A i, j \in 1..Cardinality(DOMAIN d) : i # j => q[i] # q[j] }

\* signal.disconnect(listener): pass_signal is left at its default, False
TeardownDisconnectByFunc(sg, idx, s, listener) ==
    LET ls  == sg[s].listeners
        hit == {i \in 1..Len(ls) : /\ ismethod(ls[i].listener)
                                   /\ ls[i].listener.func = listener.func}
    IN  IF hit = {}
        THEN [sigs |-> sg, idx |-> idx, status |-> "ValueError"]
        ELSE [sigs |-> [sg EXCEPT ![s].listeners =
                           RemoveAt(@, CHOOSE i \in hit : \A j \in hit : i <= j)],
              idx |-> DisconnectIndex(idx, s, listener),
              status |-> "ok"]
TeardownDisconnect(sg, idx, s, listener) ==
    DisconnectOutcome(sg, idx, s, listener, FALSE)

\* for signal in instance.__listeners__[listener]: signal.disconnect(listener)
\* The for loop walks the list object by position, i is the position it
\* reads next, while disconnect removes from that very list; an error of
\* disconnect ends the loop and leaves remove_signals_listeners.
RECURSIVE DisconnectEach(_, _, _, _)
DisconnectEach(st, instance, listener, i) ==
    LET lst == DefaultGet(st.idx[instance].map, listener)
    IN  IF st.status # "ok" \/ i > Len(lst)
        THEN st
        ELSE DisconnectEach(TeardownDisconnect(st.sigs, st.idx, lst[i], listener),
                            instance, listener, i + 1)

\* for listener in list(instance.__listeners__): the inner loop for each key
RECURSIVE DisconnectAll(_, _, _, _)
DisconnectAll(st, instance, keys, k) ==
    IF st.status # "ok" \/ k > Len(keys)
    THEN st
    ELSE DisconnectAll(DisconnectEach(st, instance, keys[k], 1),
                       instance, keys, k + 1)

remove_signals_listeners(instance) ==
    /\ UserCode
    /\ IF ~obj_listeners[instance].has
       THEN \* hasattr(instance, "__listeners__") is False: nothing to do
            /\ result' = Result("remove_signals_listeners", "ok", instance)
            /\ UNCHANGED <<sigs, obj_listeners>>
       ELSE \E keys \in KeyOrders(obj_listeners[instance].map) :
                LET out == DisconnectAll([sigs |-> sigs, idx |-> obj_listeners,
                                          status |-> "ok"], instance, keys, 1)
                IN  /\ sigs' = out.sigs
                    /\ obj_listeners' = out.idx
                    /\ result' = Result("remove_signals_listeners",
                                         out.status, instance)
    /\ UNCHANGED <<obj_signals, stack, testcase>>

(***************************************************************************)
(* SignalTestCase: watchSignal, the recorder it connects, the assertions   *)
(* on the observed events and the cleanups the test framework runs at      *)
(* teardown.                                                               *)
(***************************************************************************)
\* the closures signal_handler, one made by each call of watchSignal
HandlerNames ==
    <<"signal_handler_1", "signal_handler_2", "signal_handler_3",
      "signal_handler_4">>
Handler(k) == Function(HandlerNames[k])

IsRecorder(listener) ==
    \E k \in 1..Len(testcase.watched) : listener = Handler(k)
HandlerIndex(listener) ==
    CHOOSE k \in 1..Len(testcase.watched) : listener = Handler(k)

\* the 3-tuple (signal, args, kwargs)
Event(signal, args, kwargs) ==
    [signal |-> signal, args |-> args, kwargs |-> kwargs]

\* _extend_state: self._events_seen = [] unless the attribute exists
extend_state(tc) ==
    IF tc.has_events THEN tc
    ELSE [tc EXCEPT !.has_events = TRUE, !.events_seen = <<>>]

\* watchSignal(signal): a new closure is connected with pass_signal false
\* and signal.disconnect(closure) is registered as a cleanup
\* (hasattr(self, 'addCleanup') holds for a unittest.TestCase)
watchSignal(s) ==
    LET handler == Handler(Len(testcase.watched) + 1)
    IN
    /\ UserCode
    /\ sigs' = [sigs EXCEPT ![s].listeners =
                   ConnectListeners(@, handler, FALSE)]
    /\ obj_listeners' = ConnectIndex(obj_listeners, s, handler)
    /\ testcase' = [extend_state(testcase) EXCEPT
                       !.watched = Append(@, s),
                       !.cleanups = Append(@, [sig |-> s, listener |-> handler])]
    /\ result' = Result("watchSignal", "ok", s)
    /\ UNCHANGED <<obj_signals, stack>>

\* the listener being invoked is one of the closures
RecorderRunning ==
    IF stack = <<>> THEN FALSE
    ELSE Top.running /\ IsRecorder(Top.invoked[Len(Top.invoked)].listener)

\* self._events_seen.append((signal, args, kwargs))
RecordFirst(seen, event) == <<event>> \o seen
Record(seen, event) == Append(seen, event)

\* the body of signal_handler(*args, **kwargs) runs and returns: signal is
\* the signal watchSignal was called with, args and kwargs what the closure
\* was invoked with
signal_handler ==
    /\ RecorderRunning
    /\ LET invocation == Top.invoked[Len(Top.invoked)]
           watched    == testcase.watched[HandlerIndex(invocation.listener)]
       IN  testcase' = [testcase EXCEPT !.events_seen =
                           Record(@, Event(watched, invocation.args,
                                           invocation.kwargs))]
    /\ stack' = [stack EXCEPT ![Len(stack)] =
                    [@ EXCEPT !.running = FALSE, !.i = @ + 1]]
    /\ result' = Result("fire", "running", Top.sig)
    /\ UNCHANGED <<sigs, obj_signals, obj_listeners>>

\* Python binds the arguments of assertSignalFired(self, signal, *args,
\* **kwargs) and assertSignalNotFired before the body runs: a keyword
\* argument named self or signal gives that parameter a second value,
\* which is a TypeError
BindsAssert(input) ==
    ~HasKey(input.kwargs, "self") /\ ~HasKey(input.kwargs, "signal")

\* assertIn(event, self._events_seen) passes / assertNotIn fails
SeenLast(event) ==
    /\ testcase.events_seen # <<>>
    /\ testcase.events_seen[Len(testcase.events_seen)] = event
Seen(event) == Contains(testcase.events_seen, event)

\* the outcome of an assertion whose body is reached
AssertResult(op, input, passes, value) ==
    IF ~BindsAssert(input) THEN Result(op, "TypeError", 0)
    ELSE IF ~testcase.has_events THEN Result(op, "AttributeError", 0)
    ELSE IF passes THEN Result(op, "ok", value)
    ELSE Result(op, "AssertionError", 0)

\* assertSignalFired(signal, *args, **kwargs): returns the event
assertSignalFired(s, input) ==
    LET event == Event(s, input.args, input.kwargs)
    IN
    /\ UserCode
    /\ result' = AssertResult("assertSignalFired", input, Seen(event), event)
    /\ UNCHANGED <<sigs, obj_signals, obj_listeners, stack, testcase>>

\* assertSignalNotFired(signal, *args, **kwargs): returns None
assertSignalNotFired(s, input) ==
    LET event == Event(s, input.args, input.kwargs)
    IN
    /\ UserCode
    /\ result' = AssertResult("assertSignalNotFired", input, ~Seen(event), 0)
    /\ UNCHANGED <<sigs, obj_signals, obj_listeners, stack, testcase>>

\* the cleanups registered with addCleanup run last in, first out, from
\* number k down; an error of one is recorded and the others still run
RECURSIVE RunCleanups(_, _, _)
RunCleanups(st, cleanups, k) ==
    IF k = 0 THEN st
    ELSE LET out == DisconnectOutcome(st.sigs, st.idx, cleanups[k].sig,
                                      cleanups[k].listener, FALSE)
         IN  RunCleanups([sigs |-> out.sigs, idx |-> out.idx,
                          status |-> IF out.status = "ok" THEN st.status
                                     ELSE out.status],
                         cleanups, k - 1)

\* test teardown: the framework runs the cleanups of the test case
doCleanups ==
    LET out == RunCleanups([sigs |-> sigs, idx |-> obj_listeners,
                            status |-> "ok"],
                           testcase.cleanups, Len(testcase.cleanups))
    IN
    /\ UserCode
    /\ sigs' = out.sigs
    /\ obj_listeners' = out.idx
    /\ testcase' = [testcase EXCEPT !.cleanups = <<>>]
    /\ result' = Result("doCleanups", out.status, 0)
    /\ UNCHANGED <<obj_signals, stack>>

(***************************************************************************)
(* SignalTestCase.assertSignalOrdering                                     *)
(***************************************************************************)
\* [self._events_seen.index(event) for event in expected_events]:
\* list.index gives the position of the first element equal to event
ExpectedOrder(seen, expected) ==
    [k \in 1..Len(expected) |-> IndexOf(seen, expected[k])]

\* expected_order == sorted(expected_order)
IsSorted(order) ==
    \A i, j \in 1..Len(order) : i < j => order[i] <= order[j]

assertSignalOrdering(expected) ==
    /\ UserCode
    /\ result' =
          IF expected # <<>> /\ ~testcase.has_events
          THEN Result("assertSignalOrdering", "AttributeError", 0)
          ELSE IF \E k \in 1..Len(expected) :
                     ~Contains(testcase.events_seen, expected[k])
          THEN \* list.index raises ValueError
               Result("assertSignalOrdering", "ValueError", 0)
          ELSE IF IsSorted(ExpectedOrder(testcase.events_seen, expected))
          THEN Result("assertSignalOrdering", "ok", 0)
          ELSE Result("assertSignalOrdering", "AssertionError", 0)
    /\ UNCHANGED <<sigs, obj_signals, obj_listeners, stack, testcase>>

(***************************************************************************)
(* Spec: one signal constructed from a name; a plain function and a bound  *)
(* method are connected and disconnected with either pass_signal flag, by  *)
(* the top-level caller and by listeners while the signal is being fired.  *)
(***************************************************************************)
h == Function("h")
m1 == Method("r1", "m1")
Listeners == {h, m1}
\* what connect is called with; disconnect is called with any listener and flag
Connectable == {<<h, FALSE>>, <<h, TRUE>>, <<m1, FALSE>>}

S == 1

Init ==
    /\ sigs = <<SignalFromName("s")>>
    /\ obj_signals = [o \in Instances |-> NoAttr]
    /\ obj_listeners = [o \in Receivers |-> NoAttr]
    /\ stack = <<>>
    /\ result = Result("init", "ok", 0)
    /\ testcase = NoTestCase

Next ==
    \/ \E c \in Connectable :
           Len(sigs[S].listeners) < MaxListeners /\ connect(S, c[1], c[2])
    \/ \E l \in Listeners, f \in BOOLEAN : disconnect(S, l, f)
    \/ \E input \in FireInputs : stack = <<>> /\ fire(S, input)
    \/ \E input \in CallInputs : stack = <<>> /\ signal_call(S, input)
    \/ fire_call
    \/ listener_return
    \/ \E e \in Errors : listener_raise(e)
    \/ fire_return

Spec == Init /\ [][Next]_vars

(***************************************************************************)
(* SpecDescr: a class declares one signal, on_foo = signal(on_foo), and    *)
(* has the instances of Instances.  The attribute is read through the      *)
(* class and through the instances; the signals so obtained (and the       *)
(* declaration itself) are connected to, disconnected from and fired.      *)
(***************************************************************************)
on_foo == Function("on_foo")

\* the declaration: the signal object that is the class attribute
D == 1

\* what user code holds to disconnect: h, or a first responder adapter read
\* from sig.listeners[0].listener
DescrListeners == {h} \cup {boundmethod(o, on_foo) : o \in Instances}

\* the signals realized through instances so far
Realized == 2..Len(sigs)

\* what user code tries to assign to the attribute
SetValues == {h, on_foo}

\* what the signals are fired with
DescrInput == [args |-> <<1>>, kwargs |-> {<<"arg2", 2>>}]

InitDescr ==
    /\ sigs = <<SignalFromCallable(on_foo, FALSE, None)>>
    /\ obj_signals = [o \in Instances |-> NoAttr]
    /\ obj_listeners = [o \in Receivers |-> NoAttr]
    /\ stack = <<>>
    /\ result = Result("init", "ok", 0)
    /\ testcase = NoTestCase

NextDescr ==
    \/ \E o \in Instances \cup {None} : get(D, o)
    \/ \E o \in Instances, v \in SetValues : set(D, o, v)
    \/ \E o \in Instances : delete(D, o)
    \/ \E s \in Realized :
           Len(sigs[s].listeners) < MaxDescrListeners /\ connect(s, h, FALSE)
    \/ \E s \in Realized, l \in DescrListeners, f \in BOOLEAN :
           disconnect(s, l, f)
    \/ \E s \in Realized : stack = <<>> /\ fire(s, DescrInput)
    \/ fire_call
    \/ listener_return
    \/ \E e \in Errors : listener_raise(e)
    \/ fire_return

SpecDescr == InitDescr /\ [][NextDescr]_vars

(***************************************************************************)
(* SpecTeardown: two signals constructed from names; bound methods of two  *)
(* receiver objects, a plain function and a first responder adapter are    *)
(* connected and disconnected, and remove_signals_listeners is called on   *)
(* the receivers.                                                          *)
(***************************************************************************)
\* SpecTeardown offers connect while the two signals together hold fewer
\* records than this
MaxTeardownRecords == 3

TeardownReceivers == {"r1", "r2"}
\* a second method of r1, and the method m1 of the other receiver
m2 == Method("r1", "m2")
n1 == Method("r2", "m1")
\* the first responder adapter of r1, were r1 to declare on_foo itself
adapter_r1 == boundmethod("r1", on_foo)

TeardownListeners == {m1, m2, n1, h, adapter_r1}
TeardownConnectable ==
    {<<m1, FALSE>>, <<m1, TRUE>>, <<m2, FALSE>>, <<n1, FALSE>>, <<h, FALSE>>,
     <<adapter_r1, FALSE>>}

InitTeardown ==
    /\ sigs = <<SignalFromName("s1"), SignalFromName("s2")>>
    /\ obj_signals = [o \in Instances |-> NoAttr]
    /\ obj_listeners = [o \in TeardownReceivers |-> NoAttr]
    /\ stack = <<>>
    /\ result = Result("init", "ok", 0)
    /\ testcase = NoTestCase

NextTeardown ==
    \/ \E s \in 1..Len(sigs), c \in TeardownConnectable :
           /\ Len(sigs[1].listeners) + Len(sigs[2].listeners) < MaxTeardownRecords
           /\ connect(s, c[1], c[2])
    \/ \E s \in 1..Len(sigs), l \in TeardownListeners, f \in BOOLEAN :
           disconnect(s, l, f)
    \/ \E o \in TeardownReceivers : remove_signals_listeners(o)

SpecTeardown == InitTeardown /\ [][NextTeardown]_vars

(***************************************************************************)
(* SpecCtor: signals are constructed, from names and from callables, with  *)
(* either pass_signal flag and with or without an explicit signal_name.    *)
(***************************************************************************)
\* SpecCtor constructs signals while fewer than this many exist
MaxSignals == 3

\* a function that carries __name__ only
legacy == Function("legacy")
Callables == {on_foo, legacy}
\* the values of the signal_name argument: omitted, empty, a name
SignalNames == {None, "", "custom"}
\* the names signals are constructed from
Names == {"s", ""}

InitCtor ==
    /\ sigs = <<>>
    /\ obj_signals = [o \in Instances |-> NoAttr]
    /\ obj_listeners = [o \in Receivers |-> NoAttr]
    /\ stack = <<>>
    /\ result = Result("init", "ok", 0)
    /\ testcase = NoTestCase

NextCtor ==
    \/ \E n \in Names, f \in BOOLEAN, sn \in SignalNames :
           Len(sigs) < MaxSignals /\ init_name(n, f, sn)
    \/ \E fn \in Callables, f \in BOOLEAN, sn \in SignalNames :
           Len(sigs) < MaxSignals /\ init_callable(fn, f, sn)

SpecCtor == InitCtor /\ [][NextCtor]_vars

(***************************************************************************)
(* SpecThreads: one thread fires the signal S, another thread connects to  *)
(* it and disconnects from it at any moment, between any two steps of the  *)
(* running fire.                                                           *)
(***************************************************************************)
\* SpecThreads offers connect while the signal holds fewer records than this
MaxThreadListeners == 3

InitThreads ==
    /\ sigs = <<SignalFromName("s")>>
    /\ obj_signals = [o \in Instances |-> NoAttr]
    /\ obj_listeners = [o \in Receivers |-> NoAttr]
    /\ stack = <<>>
    /\ result = Result("init", "ok", 0)
    /\ testcase = NoTestCase

NextThreads ==
    \/ \E c \in Connectable :
           /\ Len(sigs[S].listeners) < MaxThreadListeners
           /\ thread_connect(S, c[1], c[2])
    \/ \E l \in Listeners, f \in BOOLEAN : thread_disconnect(S, l, f)
    \/ stack = <<>> /\ fire(S, DescrInput)
    \/ fire_call
    \/ listener_return
    \/ \E e \in Errors : listener_raise(e)
    \/ fire_return

SpecThreads == InitThreads /\ [][NextThreads]_vars

(***************************************************************************)
(* SpecTest: a test case watches two signals constructed from names, the   *)
(* signals are fired, the assertions are made and the cleanups are run.    *)
(* The function h, which may raise, is connected to the first signal, and  *)
(* user code may disconnect a recorder it finds in a signal's listeners.   *)
(***************************************************************************)
\* SpecTest offers watchSignal while fewer than this many calls were made
MaxWatch == 2
\* SpecTest offers fire while fewer than this many events were observed
MaxEvents == 2

TestSignals == {1, 2}

InitTest ==
    /\ sigs = <<SignalFromName("signal"), SignalFromName("other")>>
    /\ obj_signals = [o \in Instances |-> NoAttr]
    /\ obj_listeners = [o \in Receivers |-> NoAttr]
    /\ stack = <<>>
    /\ result = Result("init", "ok", 0)
    /\ testcase = NoTestCase

NextTest ==
    \/ \E s \in TestSignals :
           /\ stack = <<>>
           /\ Len(testcase.watched) < MaxWatch
           /\ watchSignal(s)
    \/ /\ stack = <<>>
       /\ ~Contains(sigs[1].listeners, listenerinfo(h, FALSE))
       /\ connect(1, h, FALSE)
    \/ \E s \in TestSignals, k \in 1..Len(testcase.watched) :
           stack = <<>> /\ disconnect(s, Handler(k), FALSE)
    \/ \E s \in TestSignals, input \in FireInputs :
           /\ stack = <<>>
           /\ Len(testcase.events_seen) < MaxEvents
           /\ fire(s, input)
    \/ fire_call
    \/ ~RecorderRunning /\ listener_return
    \/ \E e \in Errors : ~RecorderRunning /\ listener_raise(e)
    \/ signal_handler
    \/ fire_return
    \/ \E s \in TestSignals, input \in FireInputs :
           stack = <<>> /\ assertSignalFired(s, input)
    \/ \E s \in TestSignals, input \in FireInputs :
           stack = <<>> /\ assertSignalNotFired(s, input)
    \/ stack = <<>> /\ doCleanups

SpecTest == InitTest /\ [][NextTest]_vars

(***************************************************************************)
(* SpecOrdering: a test case watches one signal constructed from a name;   *)
(* the signal is fired with either of two argument lists, any number of    *)
(* times; assertSignalFired hands out the observed events and              *)
(* assertSignalOrdering is called with sequences of them.                  *)
(***************************************************************************)
\* SpecOrdering offers fire while fewer than this many events were observed
MaxObserved == 3
\* assertSignalOrdering is called with at most this many events
MaxExpected == 3

\* the events a fire of the watched signal can leave in the observed sequence
OrderingEvents == {Event(S, input.args, input.kwargs) : input \in FireInputs}

\* the argument lists assertSignalOrdering is called with
ExpectedEvents ==
    UNION {[1..n -> OrderingEvents] : n \in 0..MaxExpected}

InitOrdering ==
    /\ sigs = <<[SignalFromName("signal") EXCEPT
                    !.listeners = <<listenerinfo(Handler(1), FALSE)>>]>>
    /\ obj_signals = [o \in Instances |-> NoAttr]
    /\ obj_listeners = [o \in Receivers |-> NoAttr]
    /\ stack = <<>>
    /\ result = Result("watchSignal", "ok", S)
    /\ testcase = [has_events |-> TRUE, events_seen |-> <<>>,
                   watched |-> <<S>>,
                   cleanups |-> <<[sig |-> S, listener |-> Handler(1)]>>]

NextOrdering ==
    \/ \E input \in FireInputs :
           /\ stack = <<>>
           /\ Len(testcase.events_seen) < MaxObserved
           /\ fire(S, input)
    \/ fire_call
    \/ signal_handler
    \/ fire_return
    \/ \E input \in FireInputs : stack = <<>> /\ assertSignalFired(S, input)
    \/ \E expected \in ExpectedEvents :
           stack = <<>> /\ assertSignalOrdering(expected)

SpecOrdering == InitOrdering /\ [][NextOrdering]_vars

(***************************************************************************)
(* SpecIndex: a signal constructed from a name and a signal declared on a  *)
(* class and realized through an instance; bound methods of two receiver   *)
(* objects, a plain function and the first responder adapters are          *)
(* connected and disconnected, with success and without, and               *)
(* remove_signals_listeners is called on the receivers.                    *)
(***************************************************************************)
\* SpecIndex offers connect while the signals together hold fewer records
\* than this
MaxIndexRecords == 4

\* the number of records held by the signals sg[k], ..., sg[Len(sg)]
RECURSIVE TotalRecords(_, _)
TotalRecords(sg, k) ==
    IF k > Len(sg) THEN 0 ELSE Len(sg[k].listeners) + TotalRecords(sg, k + 1)

\* the signal constructed from a name, and those realized so far
IndexSignals == 2..Len(sigs)

IndexConnectable ==
    {<<m1, FALSE>>, <<m1, TRUE>>, <<m2, FALSE>>, <<n1, FALSE>>, <<h, FALSE>>}

\* the instance the declared signal is read through
IndexInstances == {"a"}

IndexListeners ==
    {m1, m2, n1, h} \cup {boundmethod(o, on_foo) : o \in IndexInstances}

InitIndex ==
    /\ sigs = <<SignalFromCallable(on_foo, FALSE, None), SignalFromName("s")>>
    /\ obj_signals = [o \in Instances |-> NoAttr]
    /\ obj_listeners = [o \in TeardownReceivers |-> NoAttr]
    /\ stack = <<>>
    /\ result = Result("init", "ok", 0)
    /\ testcase = NoTestCase

NextIndex ==
    \/ \E o \in IndexInstances : get(D, o)
    \/ \E s \in IndexSignals, c \in IndexConnectable :
           /\ TotalRecords(sigs, 1) < MaxIndexRecords
           /\ connect(s, c[1], c[2])
    \/ \E s \in IndexSignals, l \in IndexListeners, f \in BOOLEAN :
           disconnect(s, l, f)
    \/ \E o \in TeardownReceivers : remove_signals_listeners(o)

SpecIndex == InitIndex /\ [][NextIndex]_vars

(***************************************************************************)
(* SpecNames: a class declares three signals,                              *)
(*     a = signal(on_a, signal_name='changed')                             *)
(*     b = signal(on_b, signal_name='changed')                             *)
(*     legacy = signal(legacy)                                             *)
(* two of them under one explicit name.  The attributes are read through   *)
(* the class and through the instances, and the signals so obtained are    *)
(* connected to.                                                           *)
(***************************************************************************)
\* SpecNames offers connect while a signal holds fewer records than this
MaxNamesListeners == 2

on_a == Function("on_a")
on_b == Function("on_b")

\* the declarations: the signal objects that are the class attributes
Declarations == 1..3

\* the signals realized through instances so far
RealizedNames == 4..Len(sigs)

InitNames ==
    /\ sigs = <<SignalFromCallable(on_a, FALSE, "changed"),
                SignalFromCallable(on_b, FALSE, "changed"),
                SignalFromCallable(legacy, FALSE, None)>>
    /\ obj_signals = [o \in Instances |-> NoAttr]
    /\ obj_listeners = [o \in Receivers |-> NoAttr]
    /\ stack = <<>>
    /\ result = Result("init", "ok", 0)
    /\ testcase = NoTestCase

NextNames ==
    \/ \E d \in Declarations, o \in Instances \cup {None} : get(d, o)
    \/ \E s \in RealizedNames :
           Len(sigs[s].listeners) < MaxNamesListeners /\ connect(s, h, FALSE)

SpecNames == InitNames /\ [][NextNames]_vars

(***************************************************************************)
(* SpecGrow: one signal constructed from a name whose listeners connect    *)
(* further listeners, themselves included, while they are being invoked.   *)
(* The interpreter keeps running the loop of fire(), and every listener    *)
(* that is invoked returns or raises in the end: these are the fairness    *)
(* conditions.                                                             *)
(***************************************************************************)
\* SpecGrow offers connect while the signal holds fewer records than this
MaxGrowListeners == 4

\* a listener whose body connects to the signal that invokes it
grow == Function("grow")

GrowConnectable == {h, grow}

\* the listener being invoked returns or raises
listener_ends == listener_return \/ \E e \in Errors : listener_raise(e)

InitGrow ==
    /\ sigs = <<SignalFromName("s")>>
    /\ obj_signals = [o \in Instances |-> NoAttr]
    /\ obj_listeners = [o \in Receivers |-> NoAttr]
    /\ stack = <<>>
    /\ result = Result("init", "ok", 0)
    /\ testcase = NoTestCase

NextGrow ==
    \/ \E l \in GrowConnectable :
           Len(sigs[S].listeners) < MaxGrowListeners /\ connect(S, l, FALSE)
    \/ stack = <<>> /\ fire(S, DescrInput)
    \/ fire_call
    \/ listener_ends
    \/ fire_return

SpecGrow ==
    /\ InitGrow
    /\ [][NextGrow]_vars
    /\ WF_vars(fire_call)
    /\ WF_vars(fire_return)
    /\ WF_vars(listener_ends)

(***************************************************************************)
(* SpecNested: one signal constructed from a name; its listeners connect   *)
(* and disconnect while they are being invoked and fire the signal again   *)
(* from within their invocation.                                           *)
(***************************************************************************)
\* SpecNested offers connect while the signal holds fewer records than this
MaxNestedListeners == 2
\* SpecNested offers fire while fewer passes than this are running
MaxDepth == 2

InitNested ==
    /\ sigs = <<SignalFromName("s")>>
    /\ obj_signals = [o \in Instances |-> NoAttr]
    /\ obj_listeners = [o \in Receivers |-> NoAttr]
    /\ stack = <<>>
    /\ result = Result("init", "ok", 0)
    /\ testcase = NoTestCase

NextNested ==
    \/ Len(sigs[S].listeners) < MaxNestedListeners /\ connect(S, h, FALSE)
    \/ disconnect(S, h, FALSE)
    \/ Len(stack) < MaxDepth /\ fire(S, DescrInput)
    \/ fire_call
    \/ listener_return
    \/ \E e \in Errors : listener_raise(e)
    \/ fire_return

SpecNested == InitNested /\ [][NextNested]_vars

(***************************************************************************)
(* SpecQuiet: a signal constructed from a name and a signal declared on a  *)
(* class and realized through an instance; a plain function and a bound    *)
(* method are connected and disconnected by the top-level caller only, and *)
(* the signals are fired with listeners that return or raise and do        *)
(* nothing else.                                                           *)
(***************************************************************************)
\* SpecQuiet offers connect while the signals together hold fewer records
\* than this
MaxQuietRecords == 4

InitQuiet ==
    /\ sigs = <<SignalFromCallable(on_foo, FALSE, None), SignalFromName("s")>>
    /\ obj_signals = [o \in Instances |-> NoAttr]
    /\ obj_listeners = [o \in Receivers |-> NoAttr]
    /\ stack = <<>>
    /\ result = Result("init", "ok", 0)
    /\ testcase = NoTestCase

NextQuiet ==
    \/ \E o \in IndexInstances : stack = <<>> /\ get(D, o)
    \/ \E s \in IndexSignals, c \in Connectable :
           /\ stack = <<>>
           /\ TotalRecords(sigs, 1) < MaxQuietRecords
           /\ connect(s, c[1], c[2])
    \/ \E s \in IndexSignals, l \in Listeners, f \in BOOLEAN :
           stack = <<>> /\ disconnect(s, l, f)
    \/ \E s \in IndexSignals, input \in FireInputs :
           stack = <<>> /\ fire(s, input)
    \/ \E s \in IndexSignals, input \in CallInputs :
           stack = <<>> /\ signal_call(s, input)
    \/ fire_call
    \/ listener_return
    \/ \E e \in Errors : listener_raise(e)
    \/ fire_return

SpecQuiet == InitQuiet /\ [][NextQuiet]_vars

(***************************************************************************)
(* SpecTemplate: a class declares one signal, on_foo = signal(on_foo).     *)
(* The declaration itself, read through the class, is connected to and     *)
(* disconnected from, its first responder included, before and after the   *)
(* attribute is read through the instances; the per-instance signals so    *)
(* obtained are connected to and disconnected from as well.                *)
(***************************************************************************)
\* SpecTemplate offers connect while a signal holds fewer records than this
MaxTemplateListeners == 2

\* what user code disconnects from the declaration: h, or the callable read
\* from its first_responder
TemplateListeners == {h, on_foo}

InitTemplate ==
    /\ sigs = <<SignalFromCallable(on_foo, FALSE, None)>>
    /\ obj_signals = [o \in Instances |-> NoAttr]
    /\ obj_listeners = [o \in Receivers |-> NoAttr]
    /\ stack = <<>>
    /\ result = Result("init", "ok", 0)
    /\ testcase = NoTestCase

NextTemplate ==
    \/ \E o \in Instances \cup {None} : get(D, o)
    \/ \E f \in BOOLEAN :
           Len(sigs[D].listeners) < MaxTemplateListeners /\ connect(D, h, f)
    \/ \E l \in TemplateListeners, f \in BOOLEAN : disconnect(D, l, f)
    \/ \E s \in Realized :
           Len(sigs[s].listeners) < MaxTemplateListeners /\ connect(s, h, FALSE)
    \/ \E s \in Realized, l \in DescrListeners : disconnect(s, l, FALSE)

SpecTemplate == InitTemplate /\ [][NextTemplate]_vars

(***************************************************************************)
(* Properties of fire, connect and disconnect, checked under Spec.         *)
(***************************************************************************)
Frames == {stack[k] : k \in 1..Len(stack)}

\* the listeners a pass has invoked so far, in the order of the calls
InvokedListeners(frame) ==
    [k \in 1..Len(frame.invoked) |-> frame.invoked[k].listener]

\* the listeners of the records registered when the pass started
ListenersAtStart(frame) ==
    [k \in 1..Len(frame.listeners_at_start) |->
        frame.listeners_at_start[k].listener]

\* the top frame has made every call of its pass and is about to return
PassComplete ==
    /\ stack # <<>>
    /\ ~Top.running
    /\ Len(Top.invoked) = Len(Top.listeners_at_start)
    /\ Top.i > Len(Top.listeners_at_start)

\* C1: a fire invokes the records that were in S.listeners when it started,
\* in sequence order and once per record (a callable registered k times is
\* invoked k times), and nothing else: at every moment the calls made are
\* the first records of that list, one call per record; and a fire that
\* returned normally has invoked every one of them.
C1_FireInvokesEachRecordOnceInOrder ==
    /\ \A frame \in Frames :
          /\ Len(frame.invoked) <= Len(frame.listeners_at_start)
          /\ InvokedListeners(frame) =
                 SubSeq(ListenersAtStart(frame), 1, Len(frame.invoked))
    /\ (result.op = "fire" /\ result.status = "returned")
           => result.invoked = result.total

\* C1 witness: a pass over three records, two of them the same record, has
\* completed all three invocations.
C1_Witness ==
    /\ PassComplete
    /\ Len(Top.invoked) = 3
    /\ Top.listeners_at_start[1] = Top.listeners_at_start[2]
    /\ Top.invoked[1].listener = Top.invoked[2].listener

\* C2: connect and disconnect made by listeners while a fire runs do not
\* change what that fire invokes: the call made at loop position i is to the
\* i-th record of the list as it was when the fire started, whatever the
\* signal's list holds by then, and the fire returns after the last of them.
C2_MutationDuringFireDoesNotPerturb ==
    [][ /\ (fire_call /\ Len(stack') = Len(stack)) =>
              /\ Top.i <= Len(Top.listeners_at_start)
              /\ Top'.invoked[Len(Top'.invoked)].listener =
                     Top.listeners_at_start[Top.i].listener
        /\ fire_return =>
              /\ Top.i = Len(Top.listeners_at_start) + 1
              /\ Len(Top.invoked) = Len(Top.listeners_at_start)
      ]_vars

\* C2 witness: a completed pass that invoked a record which an earlier
\* listener had disconnected before its call, while the signal's list holds
\* a record connected during the pass, which the pass did not invoke.
C2_Witness ==
    /\ PassComplete
    /\ \E k \in 2..Len(Top.invoked) : ~Top.invoked[k].registered
    /\ \E j \in 1..Len(sigs[S].listeners) :
          /\ ~Contains(Top.listeners_at_start, sigs[S].listeners[j])
          /\ \A k \in 1..Len(Top.invoked) :
                Top.invoked[k].listener # sigs[S].listeners[j].listener

\* every (listener, pass_signal) pair user code may name in Spec
Infos == {listenerinfo(l, f) : l \in Listeners, f \in BOOLEAN}

\* the number of records of a callable, whatever their flag
CountListener(ls, l) == Cardinality({i \in 1..Len(ls) : ls[i].listener = l})

C4_DisconnectRemovesFirstMatch ==
    [][ \A info \in Infos :
          (disconnect(S, info.listener, info.pass_signal)
             /\ Contains(sigs[S].listeners, info)) =>
              \E k \in 1..Len(sigs[S].listeners) :
                  /\ sigs[S].listeners[k] = info
                  /\ \A j \in 1..(k - 1) : sigs[S].listeners[j] # info
                  /\ sigs'[S].listeners =
                         SubSeq(sigs[S].listeners, 1, k - 1) \o
                         SubSeq(sigs[S].listeners, k + 1,
                                Len(sigs[S].listeners))
      ]_vars

\* C4 witness: a disconnect has succeeded and left behind both a record of
\* h with the other flag and a later duplicate, in their original order.
C4_Witness ==
    /\ result.op = "disconnect"
    /\ result.status = "ok"
    /\ sigs[S].listeners = <<listenerinfo(h, TRUE), listenerinfo(h, FALSE)>>

\* C5: disconnect(L, f) when no record equal to (L, f) is present fails with
\* ValueError and changes nothing: S.listeners and the per-object listener
\* index are as before the call.
C5_DisconnectAbsentFailsUnchanged ==
    [][ \A info \in Infos :
          (disconnect(S, info.listener, info.pass_signal)
             /\ ~Contains(sigs[S].listeners, info)) =>
              /\ result'.op = "disconnect"
              /\ result'.status = "ValueError"
              /\ sigs' = sigs
              /\ obj_listeners' = obj_listeners
      ]_vars

\* C5 witness: a disconnect has failed while h and the bound method m1 are
\* both connected with pass_signal false only, so it named one of them with
\* the other flag; the records and the index of r1 are in place.
C5_Witness ==
    /\ result.op = "disconnect"
    /\ result.status = "ValueError"
    /\ sigs[S].listeners = <<listenerinfo(h, FALSE), listenerinfo(m1, FALSE)>>
    /\ obj_listeners["r1"] = Attr(DictSet(EmptyDict, m1, <<S>>))

\* C6: when listener number i of a fire raises, listeners 1..i-1 of the
\* snapshot have each been invoked once, the pass ends there, so listeners
\* i+1.. are never invoked in it, and the caller of fire gets the very error
\* the listener raised.
C6_ListenerErrorAbortsAndPropagates ==
    [][ \A e \in Errors :
          listener_raise(e) =>
              /\ InvokedListeners(Top) =
                     SubSeq(ListenersAtStart(Top), 1, Top.i)
              /\ stack' = Pop
              /\ result'.op = "fire"
              /\ result'.status = e
              /\ result'.invoked = Top.i
      ]_vars

\* C6 witness: listener 2 of 3 raised E2 and the fire ended with E2 after
\* two invocations.
C6_Witness ==
    /\ stack = <<>>
    /\ result.op = "fire"
    /\ result.status = "E2"
    /\ result.invoked = 2
    /\ result.total = 3

\* what fire() hands to the listener of a record
ExpectedKwargs(info, frame) ==
    IF info.pass_signal
    THEN frame.kwargs \cup {<<"signal", frame.sig>>}
    ELSE frame.kwargs

\* C7 as stated: every listener the pass reaches is invoked and receives
\* the fired arguments, plus S itself when its record has pass_signal true.
C7_Original ==
    [][ fire_call =>
          LET info == Top.listeners_at_start[Top.i]
              call == Top'.invoked[Len(Top'.invoked)]
          IN  /\ Len(stack') = Len(stack)
              /\ Len(Top'.invoked) = Len(Top.invoked) + 1
              /\ call.args = Top.args
              /\ call.kwargs = ExpectedKwargs(info, Top)
      ]_vars

\* C7 amended: a listener whose record has pass_signal true receives S
\* itself as the keyword argument signal on top of the fired arguments, and
\* one with pass_signal false receives exactly the fired arguments, unless
\* the fired keyword arguments already hold the key signal: then the call
\* of a pass_signal true listener fails with TypeError before the listener
\* runs, and fire ends with that error.
C7_PassSignalUnlessKeywordClash ==
    [][ fire_call =>
          LET info == Top.listeners_at_start[Top.i]
          IN  IF info.pass_signal /\ HasKey(Top.kwargs, "signal")
              THEN /\ stack' = Pop
                   /\ result'.op = "fire"
                   /\ result'.status = "TypeError"
                   /\ result'.invoked = Len(Top.invoked)
              ELSE LET call == Top'.invoked[Len(Top'.invoked)]
                   IN  /\ Len(stack') = Len(stack)
                       /\ Len(Top'.invoked) = Len(Top.invoked) + 1
                       /\ call.args = Top.args
                       /\ call.kwargs = ExpectedKwargs(info, Top)
      ]_vars

\* C7 witness: in one pass a pass_signal false listener received exactly
\* the fired arguments and a pass_signal true listener received them with
\* signal = S added.
C7_Witness ==
    /\ stack # <<>>
    /\ Len(Top.invoked) >= 2
    /\ ~Top.listeners_at_start[1].pass_signal
    /\ Top.listeners_at_start[2].pass_signal
    /\ Top.invoked[1].kwargs = {<<"arg2", 2>>}
    /\ Top.invoked[2].args = <<1>>
    /\ Top.invoked[2].kwargs = {<<"arg2", 2>>, <<"signal", S>>}

(***************************************************************************)
(* Properties of the descriptor protocol, checked under SpecDescr.         *)
(***************************************************************************)
\* the Signal instance o holds for the declaration d, once realized
IsRealized(d, o) ==
    obj_signals[o].has /\ sigs[d].name \in DOMAIN obj_signals[o].map
SignalOf(d, o) == obj_signals[o].map[sigs[d].name]

\* the first responder adapter of instance o
Adapter(d, o) ==
    [kind |-> "boundmethod", self |-> o, func |-> sigs[d].first_responder]

\* C8: every access of the declared signal D through an instance o returns
\* the same Signal object for the lifetime of o: the Signal o holds for D
\* is never replaced, and an access after the first returns it without
\* constructing a Signal and without touching any listener sequence (the
\* first responder is not connected again), whatever was connected,
\* disconnected or fired in between.
C8_InstanceSignalIdentityStable ==
    [][ \A o \in Instances :
          /\ IsRealized(D, o) =>
                /\ IsRealized(D, o)'
                /\ SignalOf(D, o)' = SignalOf(D, o)
          /\ (get(D, o) /\ IsRealized(D, o)) =>
                /\ result'.op = "get"
                /\ result'.value = SignalOf(D, o)
                /\ sigs' = sigs
      ]_vars

\* C8 witness: an access through an instance has just returned the Signal
\* realized earlier, after its first responder was disconnected and h was
\* connected to it.
C8_Witness ==
    /\ result.op = "get"
    /\ \E o \in Instances :
          /\ IsRealized(D, o)
          /\ result.value = SignalOf(D, o)
          /\ sigs[SignalOf(D, o)].listeners = <<listenerinfo(h, FALSE)>>

\* C9: through two different instances the declared signal D yields two
\* distinct Signal objects with separate listener sequences: a call of
\* connect or disconnect changes the listener sequence of the Signal it is
\* made on and of no other, a fire invokes only records of the Signal it
\* is made on, and the first responder adapter a Signal holds or invokes is
\* bound to the instance the Signal belongs to.
C9_PerInstanceSignalsAreSeparate ==
    /\ [](\A o \in Instances :
            IsRealized(D, o) =>
              /\ \A p \in Instances \ {o} :
                    IsRealized(D, p) => SignalOf(D, p) # SignalOf(D, o)
              /\ SignalOf(D, o) # D
              /\ \A k \in 1..Len(sigs[SignalOf(D, o)].listeners) :
                    LET l == sigs[SignalOf(D, o)].listeners[k].listener
                    IN  l.kind = "boundmethod" => l.self = o
              /\ \A frame \in Frames :
                    frame.sig = SignalOf(D, o) =>
                       \A k \in 1..Len(frame.invoked) :
                          LET l == frame.invoked[k].listener
                          IN  l.kind = "boundmethod" => l.self = o)
    /\ [][ \A s \in 1..Len(sigs) :
             sigs'[s] # sigs[s] =>
                /\ result'.op \in {"connect", "disconnect"}
                /\ result'.value = s
                /\ \A t \in (1..Len(sigs)) \ {s} : sigs'[t] = sigs[t]
         ]_vars

\* C9 witness: both instances hold a Signal, the two differ, their listener
\* sequences differ, and a fire of a's Signal has invoked a's adapter.
C9_Witness ==
    /\ IsRealized(D, "a")
    /\ IsRealized(D, "b")
    /\ SignalOf(D, "a") # SignalOf(D, "b")
    /\ sigs[SignalOf(D, "a")].listeners =
           <<listenerinfo(Adapter(D, "a"), FALSE), listenerinfo(h, FALSE)>>
    /\ sigs[SignalOf(D, "b")].listeners = <<listenerinfo(Adapter(D, "b"), FALSE)>>
    /\ PassComplete
    /\ Top.sig = SignalOf(D, "a")
    /\ Top.invoked[1].listener = Adapter(D, "a")

\* C10: the Signal realized by the first access through instance o has,
\* right after realization, exactly one listener record: the adapter with
\* instance o and func the decorated callable, with pass_signal false; it
\* carries the declaration's name and its first_responder is None.
C10_RealizedSignalIsSeeded ==
    [][ \A o \in Instances :
          (get(D, o) /\ ~IsRealized(D, o)) =>
              /\ Len(sigs') = Len(sigs) + 1
              /\ result'.value = Len(sigs')
              /\ IsRealized(D, o)'
              /\ SignalOf(D, o)' = Len(sigs')
              /\ sigs'[Len(sigs')].listeners =
                     << [listener |-> [kind |-> "boundmethod", self |-> o,
                                       func |-> on_foo],
                         pass_signal |-> FALSE] >>
              /\ sigs'[Len(sigs')].name = sigs[D].name
              /\ sigs'[Len(sigs')].first_responder = None
      ]_vars

\* C10 witness: the access through b has just realized b's Signal, after
\* a's Signal had been realized and changed.
C10_Witness ==
    /\ result.op = "get"
    /\ IsRealized(D, "a")
    /\ IsRealized(D, "b")
    /\ SignalOf(D, "a") = 2
    /\ result.value = 3
    /\ SignalOf(D, "b") = 3
    /\ sigs[2].listeners = <<listenerinfo(h, FALSE)>>
    /\ sigs[3].listeners = <<listenerinfo(Adapter(D, "b"), FALSE)>>
    /\ sigs[3].name = "C.on_foo"
    /\ sigs[3].first_responder = None

(***************************************************************************)
(* Properties of remove_signals_listeners, checked under SpecTeardown.     *)
(***************************************************************************)
\* the bound methods of o that o's listener index holds
IndexedMethods(o) ==
    IF obj_listeners[o].has THEN DOMAIN obj_listeners[o].map ELSE {}

\* the signals o's index records for the bound method m
IndexedSignals(o, m) ==
    {obj_listeners[o].map[m][k] : k \in 1..Len(obj_listeners[o].map[m])}

IsMethodOf(listener, o) == ismethod(listener) /\ listener.self = o

\* some record of ls has a bound method of o as its listener
HoldsMethodOf(ls, o) == \E i \in 1..Len(ls) : IsMethodOf(ls[i].listener, o)

\* every record of a bound method of o, in any signal, has pass_signal false
OnlyPlainRegistrations(o) ==
    \A s \in 1..Len(sigs) : \A i \in 1..Len(sigs[s].listeners) :
        IsMethodOf(sigs[s].listeners[i].listener, o) =>
            ~sigs[s].listeners[i].pass_signal

\* C11: after remove_signals_listeners(o) returns, no Signal that o's index
\* recorded for a bound method m of o holds a record of m any more, and o's
\* index is empty; stated for registrations made with pass_signal false, for
\* any number of methods, a method connected to several signals or several
\* times to one signal included.
C11_TeardownLeavesNoRecordOfIndexedMethods ==
    [][ \A o \in TeardownReceivers :
          (remove_signals_listeners(o) /\ OnlyPlainRegistrations(o)
             /\ result'.status = "ok") =>
              /\ \A m \in IndexedMethods(o) : \A s \in IndexedSignals(o, m) :
                    \A i \in 1..Len(sigs'[s].listeners) :
                        sigs'[s].listeners[i].listener # m
              /\ obj_listeners'[o].has => obj_listeners'[o].map = EmptyDict
      ]_vars

\* the records of ls that are not bound methods of o, in their order
NotMethodsOf(ls, o) ==
    SelectSeq(ls, LAMBDA r : ~IsMethodOf(r.listener, o))

EachIndexedOnce(o) ==
    \A m \in IndexedMethods(o) : Len(obj_listeners[o].map[m]) = 1

\* a bound method of o is registered with pass_signal true
HasPassSignalRegistration(o) ==
    \E s \in 1..Len(sigs) : \E i \in 1..Len(sigs[s].listeners) :
        /\ IsMethodOf(sigs[s].listeners[i].listener, o)
        /\ sigs[s].listeners[i].pass_signal

\* C13: remove_signals_listeners(o) disconnects o's methods whatever flag
\* they were connected with: when a bound method of o is registered with
\* pass_signal true (each method of o on one signal, once), the call
\* completes without error and no Signal holds a record of a method of o
\* afterwards.
C13_TeardownDisconnectsPassSignalRecords ==
    [][ \A o \in TeardownReceivers :
          (remove_signals_listeners(o) /\ HasPassSignalRegistration(o)
             /\ EachIndexedOnce(o)) =>
              /\ result'.status = "ok"
              /\ \A s \in 1..Len(sigs) : ~HoldsMethodOf(sigs'[s].listeners, o)
      ]_vars

(***************************************************************************)
(* Properties of class access, assignment and deletion, checked under      *)
(* SpecDescr.                                                              *)
(***************************************************************************)
\* C14: reading the declared signal through the class returns the
\* declaration itself and has no side effect: no Signal is constructed, no
\* instance's cache is created or changed, no listener index changes, and
\* the declaration keeps its name, first_responder and listener sequence.
C14_ClassAccessReturnsDeclaration ==
    [][ get(D, None) =>
          /\ result'.op = "get"
          /\ result'.status = "ok"
          /\ result'.value = D
          /\ sigs' = sigs
          /\ obj_signals' = obj_signals
          /\ obj_listeners' = obj_listeners
          /\ stack' = stack
      ]_vars

\* C14 witness: the class access has just returned the declaration, while
\* a holds a realized Signal and b has no cache; the declaration is as
\* constructed.
C14_Witness ==
    /\ result.op = "get"
    /\ result.value = D
    /\ IsRealized(D, "a")
    /\ ~obj_signals["b"].has
    /\ sigs[D].name = "C.on_foo"
    /\ sigs[D].first_responder = on_foo
    /\ sigs[D].listeners = <<listenerinfo(on_foo, FALSE)>>

\* C15: assigning to the declared signal attribute through an instance, and
\* deleting it through an instance, always fail with AttributeError and
\* change nothing, whether or not the instance holds a realized Signal; the
\* access that follows returns the Signal the instance held before the
\* attempt.
C15_SetAndDeleteAlwaysFail ==
    [][ \A o \in Instances :
          /\ ((\E v \in SetValues : set(D, o, v)) \/ delete(D, o)) =>
                /\ result'.status = "AttributeError"
                /\ sigs' = sigs
                /\ obj_signals' = obj_signals
                /\ obj_listeners' = obj_listeners
                /\ stack' = stack
          /\ (result.op \in {"set", "delete"} /\ IsRealized(D, o)
                 /\ get(D, o)) =>
                result'.value = SignalOf(D, o)
      ]_vars

\* C15 witness: an assignment has just failed while a holds a realized
\* Signal, with h connected to it, and b has no cache.
C15_Witness ==
    /\ result.op = "set"
    /\ result.status = "AttributeError"
    /\ IsRealized(D, "a")
    /\ ~obj_signals["b"].has
    /\ sigs[SignalOf(D, "a")].listeners =
           <<listenerinfo(Adapter(D, "a"), FALSE), listenerinfo(h, FALSE)>>

(***************************************************************************)
(* Properties of calling a signal, checked under Spec.                     *)
(***************************************************************************)
\* the state fire(s, input) leaves, but for the name of the call in result
EntersFire(s, input) ==
    /\ stack' = Append(stack,
                   [sig |-> s, snapshot |-> sigs[s].listeners,
                    listeners_at_start |-> sigs[s].listeners, i |-> 1,
                    args |-> input.args, kwargs |-> input.kwargs,
                    invoked |-> <<>>, running |-> FALSE,
                    events_at_start |-> Len(testcase.events_seen)])
    /\ result'.status = "running"
    /\ result'.value = s
    /\ sigs' = sigs
    /\ obj_signals' = obj_signals
    /\ obj_listeners' = obj_listeners

Constructed == sigs'[Len(sigs')]

\* a Signal constructed from a name has no listeners and no first responder
FromNameIsBare ==
    \A n \in Names, f \in BOOLEAN, sn \in SignalNames :
        init_name(n, f, sn) =>
            /\ Len(sigs') = Len(sigs) + 1
            /\ Constructed.name = n
            /\ Constructed.listeners = <<>>
            /\ Constructed.first_responder = None

\* a Signal constructed from a callable holds the one record (c, f) and has
\* c as its first responder
FromCallableIsSeeded(fn, f, sn) ==
    /\ Len(sigs') = Len(sigs) + 1
    /\ Constructed.listeners = << [listener |-> fn, pass_signal |-> f] >>
    /\ Constructed.first_responder = fn

\* the identifier the name is derived from: __qualname__ when the callable
\* has one, else __name__
DerivedName(fn) ==
    IF fn = on_foo THEN "C.on_foo" ELSE fn.func

C18_ConcurrentMutationDoesNotPerturbFire ==
    /\ [](\A frame \in Frames :
            /\ Len(frame.invoked) <= Len(frame.listeners_at_start)
            /\ \A k \in 1..Len(frame.invoked) :
                  frame.invoked[k].listener =
                      frame.listeners_at_start[k].listener)
    /\ [][ fire_return =>
             /\ InvokedListeners(Top) = ListenersAtStart(Top)
             /\ result'.invoked = Len(Top.listeners_at_start)
         ]_vars

\* C18 witness: a pass over two records has invoked both although the
\* other thread disconnected the first before the pass called it, and the
\* signal now holds a record, connected after the snapshot, that the pass
\* did not invoke.
C18_Witness ==
    /\ PassComplete
    /\ Len(Top.invoked) = 2
    /\ ~Top.invoked[1].registered
    /\ \E j \in 1..Len(sigs[S].listeners) :
          /\ ~Contains(Top.listeners_at_start, sigs[S].listeners[j])
          /\ \A k \in 1..Len(Top.invoked) :
                Top.invoked[k].listener # sigs[S].listeners[j].listener

(***************************************************************************)
(* Properties of SignalTestCase, checked under SpecTest.                   *)
(***************************************************************************)
\* the recorders among the records of a listener sequence
CountRecorders(ls) ==
    Cardinality({k \in 1..Len(ls) : IsRecorder(ls[k].listener)})

\* the recorder invocations of a pass whose body has run to its end
CompletedRecorderCalls(frame) ==
    Cardinality({k \in 1..Len(frame.invoked) :
                    /\ IsRecorder(frame.invoked[k].listener)
                    /\ ~(k = Len(frame.invoked) /\ frame.running)})

\* watchSignal(s) appends exactly one record, a closure that was in no
\* listener sequence before, with pass_signal false, to s and to s only
WatchConnectsOneRecorder ==
    \A s \in TestSignals :
        watchSignal(s) =>
            /\ Len(sigs'[s].listeners) = Len(sigs[s].listeners) + 1
            /\ SubSeq(sigs'[s].listeners, 1, Len(sigs[s].listeners)) =
                   sigs[s].listeners
            /\ LET new == sigs'[s].listeners[Len(sigs'[s].listeners)]
               IN  /\ ~new.pass_signal
                   /\ \E k \in 1..Len(testcase'.watched) :
                         new.listener = Handler(k)
                   /\ ~IsRecorder(new.listener)
                   /\ \A t \in TestSignals :
                         \A k \in 1..Len(sigs[t].listeners) :
                             sigs[t].listeners[k].listener # new.listener
            /\ \A t \in TestSignals \ {s} : sigs'[t] = sigs[t]
            /\ testcase'.events_seen = testcase.events_seen

\* after the cleanups ran no signal holds a recorder; the other records
\* and the observed sequence are as before
TeardownDisconnectsRecorders ==
    doCleanups =>
        /\ \A s \in TestSignals :
              /\ CountRecorders(sigs'[s].listeners) = 0
              /\ sigs'[s].listeners =
                     SelectSeq(sigs[s].listeners,
                               LAMBDA r : ~IsRecorder(r.listener))
        /\ testcase'.cleanups = <<>>
        /\ testcase'.events_seen = testcase.events_seen

\* a running fire ends with this step, by returning or by an error
PassEnds == stack # <<>> /\ stack' = Pop

\* C19 as stated: watchSignal(S) connects exactly one recorder; every fire
\* of S from then on appends one event (S, args, kwargs) to the observed
\* sequence; at teardown the recorder is disconnected.
C19_Original ==
    [][ /\ WatchConnectsOneRecorder
        /\ (PassEnds /\ CountRecorders(Top.listeners_at_start) > 0) =>
              testcase'.events_seen =
                  Append(SubSeq(testcase.events_seen, 1, Top.events_at_start),
                         Event(Top.sig, Top.args, Top.kwargs))
        /\ TeardownDisconnectsRecorders
      ]_vars

\* C19 amended: watchSignal(S) connects exactly one new recorder to S, with
\* pass_signal false. A recorder appends one event (S, args, kwargs) to
\* the end of the observed sequence each time a fire of S invokes it, and
\* nothing else changes the observed sequence: at every moment of a fire
\* the events observed since it started are one (S, args, kwargs) per
\* recorder invocation completed, so a fire that returns has appended one
\* event per recorder connected to S when it started, and a fire that an
\* error of a listener cut short only those of the recorders invoked
\* before the failure. Events already observed keep their place. At
\* teardown every recorder is disconnected and no signal holds one.
C19_RecorderAppendsOneEventPerInvocation ==
    /\ [](\A frame \in Frames :
            /\ Len(testcase.events_seen) =
                   frame.events_at_start + CompletedRecorderCalls(frame)
            /\ \A j \in (frame.events_at_start + 1)..Len(testcase.events_seen) :
                  testcase.events_seen[j] =
                      Event(frame.sig, frame.args, frame.kwargs))
    /\ [][ /\ WatchConnectsOneRecorder
           /\ SubSeq(testcase'.events_seen, 1, Len(testcase.events_seen)) =
                  testcase.events_seen
           /\ stack = <<>> => testcase'.events_seen = testcase.events_seen
           /\ fire_return =>
                  Len(testcase.events_seen) =
                      Top.events_at_start + CountRecorders(Top.listeners_at_start)
           /\ TeardownDisconnectsRecorders
         ]_vars

\* C19 witness: both signals were watched, h was connected to the first
\* one, each signal was fired once and observed, and the cleanups have
\* just disconnected both recorders.
C19_Witness ==
    /\ result.op = "doCleanups"
    /\ result.status = "ok"
    /\ testcase.watched = <<1, 2>>
    /\ testcase.events_seen =
           << Event(2, <<1>>, {<<"arg2", 2>>}),
              Event(1, <<1>>, {<<"arg2", 2>>, <<"signal", 100>>}) >>
    /\ sigs[1].listeners = <<listenerinfo(h, FALSE)>>
    /\ sigs[2].listeners = <<>>

\* what the two assertions are claimed to do with the event (s, a, k)
AssertionsDecideMembership(s, input) ==
    LET event    == Event(s, input.args, input.kwargs)
        observed == \E j \in 1..Len(testcase.events_seen) :
                        testcase.events_seen[j] = event
    IN  /\ assertSignalFired(s, input) =>
              /\ IF observed
                 THEN result'.status = "ok" /\ result'.value = event
                 ELSE result'.status = "AssertionError"
              /\ testcase' = testcase
        /\ assertSignalNotFired(s, input) =>
              /\ IF observed
                 THEN result'.status = "AssertionError"
                 ELSE result'.status = "ok"
              /\ testcase' = testcase

\* C20 as stated: once watchSignal has been called, assertSignalFired
\* succeeds and returns the event exactly when the event was observed and
\* is a test failure otherwise, assertSignalNotFired succeeds exactly when
\* it was not observed, for every a and k, and neither changes the
\* observed sequence.
C20_Original ==
    [][ \A s \in TestSignals, input \in FireInputs :
          testcase.has_events => AssertionsDecideMembership(s, input)
      ]_vars

\* C20 amended: the same, for keyword arguments k that hold neither the
\* key signal nor the key self; with one of these keys among k both
\* assertions fail with TypeError before they look at the observed
\* sequence, whether or not the event was observed, and change nothing.
C20_AssertionsDecideMembershipUnlessKeywordClash ==
    [][ \A s \in TestSignals, input \in FireInputs :
          testcase.has_events =>
              IF HasKey(input.kwargs, "signal") \/ HasKey(input.kwargs, "self")
              THEN (assertSignalFired(s, input) \/ assertSignalNotFired(s, input))
                       => /\ result'.status = "TypeError"
                          /\ testcase' = testcase
              ELSE AssertionsDecideMembership(s, input)
      ]_vars

\* C20 witness: assertSignalFired has just returned an event that is the
\* first of two observed events.
C20_Witness ==
    /\ result.op = "assertSignalFired"
    /\ result.status = "ok"
    /\ Len(testcase.events_seen) = 2
    /\ testcase.events_seen[1] # testcase.events_seen[2]
    /\ result.value = testcase.events_seen[1]
    /\ result.value = Event(2, <<1>>, {<<"arg2", 2>>})

(***************************************************************************)
(* Properties of assertSignalOrdering, checked under SpecOrdering.         *)
(***************************************************************************)
\* the events of expected, from number k on, occur in that order among the
\* events of seen from position from on
RECURSIVE OccursInOrder(_, _, _, _)
OccursInOrder(expected, k, seen, from) ==
    IF k > Len(expected) THEN TRUE
    ELSE LET hits == {j \in from..Len(seen) : seen[j] = expected[k]}
         IN  IF hits = {} THEN FALSE
             ELSE OccursInOrder(expected, k + 1, seen,
                                (CHOOSE j \in hits : \A i \in hits : j <= i) + 1)

\* no event is given twice
NoRepeats(expected) ==
    \A i, j \in 1..Len(expected) : i # j => expected[i] # expected[j]

\* C21: when the events e1, ..., en were observed in that order, repeated
\* events included, assertSignalOrdering(e1, ..., en) succeeds; when the
\* given events, each given once, were all observed but never in the given
\* order, it reports a test failure.
C21_OrderingAssertionDecidesObservedOrder ==
    [][ \A expected \in ExpectedEvents :
          (assertSignalOrdering(expected)
             /\ \A k \in 1..Len(expected) :
                   \E j \in 1..Len(testcase.events_seen) :
                       testcase.events_seen[j] = expected[k]) =>
              /\ OccursInOrder(expected, 1, testcase.events_seen, 1) =>
                     result'.status = "ok"
              /\ (NoRepeats(expected)
                    /\ ~OccursInOrder(expected, 1, testcase.events_seen, 1)) =>
                     result'.status = "AssertionError"
      ]_vars

(***************************************************************************)
(* Properties of the listener index, checked under SpecIndex.              *)
(***************************************************************************)
\* how often the signal s occurs in the index entry of the object o for m
IndexCount(o, m, s) ==
    IF obj_listeners[o].has /\ m \in DOMAIN obj_listeners[o].map
    THEN Cardinality({i \in 1..Len(obj_listeners[o].map[m]) :
                         obj_listeners[o].map[m][i] = s})
    ELSE 0

\* C22: for every object o, bound method m of o and signal S, S occurs in
\* o's index entry for m as often as S.listeners holds a record whose
\* listener is m, with either pass_signal flag, and no index entry maps to
\* an empty collection.
C22_IndexMirrorsRecords ==
    /\ \A s \in 1..Len(sigs) : \A i \in 1..Len(sigs[s].listeners) :
           LET m == sigs[s].listeners[i].listener
           IN  ismethod(m) =>
                   IndexCount(m.self, m, s) = CountListener(sigs[s].listeners, m)
    /\ \A o \in DOMAIN obj_listeners :
           obj_listeners[o].has =>
               \A m \in DOMAIN obj_listeners[o].map :
                   /\ obj_listeners[o].map[m] # <<>>
                   /\ m.self = o
                   /\ \A s \in 1..Len(sigs) :
                          IndexCount(o, m, s) =
                              CountListener(sigs[s].listeners, m)
                   /\ \A k \in 1..Len(obj_listeners[o].map[m]) :
                          obj_listeners[o].map[m][k] \in 1..Len(sigs)

\* a failing disconnect, or a failing teardown, has left a method that is
\* registered twice on a realized signal
C22_Witness ==
    /\ result.op \in {"disconnect", "remove_signals_listeners"}
    /\ result.status = "ValueError"
    /\ Len(sigs) > 2
    /\ \E o \in DOMAIN obj_listeners : \E m \in {m1, m2, n1} :
           IndexCount(o, m, 3) = 2

(***************************************************************************)
(* Properties of several declarations on one class, checked under          *)
(* SpecNames.                                                              *)
(***************************************************************************)
\* C23: the Signal a declaration d yields through an instance o is seeded
\* with the adapter of d's own first responder, and is none of the Signals
\* the other declarations of the class yield through o, also when two
\* declarations carry the same name.
C23_DeclarationsYieldDistinctSignals ==
    [][ \A d \in Declarations, o \in Instances :
          get(d, o) =>
              /\ sigs'[result'.value].listeners[1] =
                     listenerinfo(boundmethod(o, sigs[d].first_responder), FALSE)
              /\ \A d1 \in Declarations \ {d} :
                     IsRealized(d1, o) => SignalOf(d1, o) # result'.value
      ]_vars

(***************************************************************************)
(* Termination of fire(), checked under SpecGrow.                          *)
(***************************************************************************)
\* no pass has invoked more listeners than the signal held when it started
InvocationsBounded ==
    /\ \A k \in 1..Len(stack) :
           Len(stack[k].invoked) <= Len(stack[k].listeners_at_start)
    /\ result.op = "fire" => result.invoked <= result.total

\* C24: every fire() completes in the end, given that every listener it
\* invokes returns or raises, also when the listeners connect further
\* listeners or themselves on every invocation: one pass invokes at most
\* as many listeners as the signal held when the pass started.
C24_FireTerminates ==
    /\ []InvocationsBounded
    /\ (stack # <<>>) ~> (stack = <<>> /\ result.op = "fire"
                                      /\ result.status # "running")

\* a pass over two records has completed, and each of its two invocations
\* connected one more record
C24_Witness ==
    /\ stack = <<>>
    /\ result.op = "fire"
    /\ result.status = "returned"
    /\ result.total = 2
    /\ result.invoked = 2
    /\ Len(sigs[S].listeners) = 4
    /\ sigs[S].listeners[3].listener = grow
    /\ sigs[S].listeners[4].listener = grow

(***************************************************************************)
(* connect followed by disconnect, checked under SpecTeardown.  A connect  *)
(* that has just returned shows in `result`, and the record it appended is *)
(* the last of the signal's list (the signal the last of the index entry). *)
(***************************************************************************)
Front(seq) == SubSeq(seq, 1, Len(seq) - 1)

\* connect(l, f) on the signal s has just returned
JustConnected(s, l, f) ==
    /\ result.op = "connect"
    /\ result.value = s
    /\ sigs[s].listeners # <<>>
    /\ sigs[s].listeners[Len(sigs[s].listeners)] = listenerinfo(l, f)

\* the index of the object o as a mapping; without the attribute it has no
\* entry
IndexOfObject(idx, o) == IF idx[o].has THEN idx[o].map ELSE EmptyDict

\* the index as it was before the connect that has just returned
IndexBeforeConnect(s, l) ==
    IF ismethod(l)
    THEN LET d == obj_listeners[l.self].map
         IN  [o \in DOMAIN obj_listeners |->
                 IF o # l.self THEN IndexOfObject(obj_listeners, o)
                 ELSE IF Len(d[l]) = 1 THEN DictDel(d, l)
                 ELSE DictSet(d, l, Front(d[l]))]
    ELSE [o \in DOMAIN obj_listeners |-> IndexOfObject(obj_listeners, o)]

\* a list after x was appended to it and the first x was removed from it
AppendedThenRemoved(prior, x) ==
    IF \E k \in 1..Len(prior) : prior[k] = x
    THEN Append(RemoveAt(prior, IndexOf(prior, x)), x)
    ELSE prior

\* every element of the list from its first x on is x
OnlyAtTheEnd(prior, x) ==
    \A j, k \in 1..Len(prior) : (prior[j] = x /\ j < k) => prior[k] = x

\* C25 as stated: connect(L, f) immediately followed by disconnect(L, f)
\* restores the listener sequence and the index exactly, whatever the
\* sequence was before.
C25_Original ==
    [][ \A s \in 1..Len(sigs), c \in TeardownConnectable :
          (JustConnected(s, c[1], c[2]) /\ disconnect(s, c[1], c[2])) =>
              /\ result'.status = "ok"
              /\ sigs'[s].listeners = Front(sigs[s].listeners)
              /\ \A o \in DOMAIN obj_listeners :
                     IndexOfObject(obj_listeners', o) =
                         IndexBeforeConnect(s, c[1])[o]
      ]_vars

\* C25: connect(L, f) immediately followed by disconnect(L, f) succeeds and
\* leaves every signal but S alone; S.listeners is the prior sequence with
\* its first (L, f) moved to the end, which is the prior sequence exactly
\* when it held no (L, f) or nothing but (L, f) from the first one on; the
\* index entry of L is the prior one with its first S moved to the end, and
\* no entry when there was none.
C25_ConnectDisconnectMovesFirstMatchToEnd ==
    [][ \A s \in 1..Len(sigs), c \in TeardownConnectable :
          (JustConnected(s, c[1], c[2]) /\ disconnect(s, c[1], c[2])) =>
              LET info   == listenerinfo(c[1], c[2])
                  prior  == Front(sigs[s].listeners)
                  before == IndexBeforeConnect(s, c[1])
              IN  /\ result'.status = "ok"
                  /\ \A t \in 1..Len(sigs) :
                         t # s => sigs'[t] = sigs[t]
                  /\ sigs'[s].listeners = AppendedThenRemoved(prior, info)
                  /\ (sigs'[s].listeners = prior) <=> OnlyAtTheEnd(prior, info)
                  /\ \A o \in DOMAIN obj_listeners :
                       LET now == IndexOfObject(obj_listeners', o)
                       IN  /\ DOMAIN now = DOMAIN before[o]
                           /\ \A m \in DOMAIN now :
                                 now[m] = IF m = c[1]
                                          THEN AppendedThenRemoved(before[o][m], s)
                                          ELSE before[o][m]
      ]_vars

\* connect(m1) has just returned on a signal that held a record of m1
\* followed by another record, and m1 was connected to the other signal
\* in between: the disconnect that follows moves both
C25_Witness ==
    /\ JustConnected(1, m1, FALSE)
    /\ Len(sigs[1].listeners) = 2
    /\ sigs[1].listeners[1] = listenerinfo(m1, FALSE)
    /\ sigs[2].listeners = <<listenerinfo(m1, FALSE)>>
    /\ obj_listeners["r1"].map[m1] = <<1, 2, 1>>

FireStep == stack' # stack

\* C27: no step of a fire changes a listener sequence, a listener index or
\* a signal cache; a fire that ends, returning or aborted by an error,
\* leaves the signal with the records it had when the fire started, the
\* record of a listener that raised among them, and a fire that follows an
\* aborted one starts over as many records.
C27_FireLeavesRegistrationsAlone ==
    [][ /\ FireStep =>
               /\ sigs' = sigs
               /\ obj_listeners' = obj_listeners
               /\ obj_signals' = obj_signals
        /\ (Len(stack') < Len(stack)) =>
               sigs'[Top.sig].listeners = Top.listeners_at_start
        /\ \A e \in Errors :
               listener_raise(e) =>
                   /\ Len(sigs'[Top.sig].listeners) >= Top.i
                   /\ sigs'[Top.sig].listeners[Top.i].listener =
                          Top.invoked[Top.i].listener
        /\ (Len(stack') > Len(stack) /\ result.op = "fire"
               /\ result.status \in Errors /\ result.value = Top'.sig) =>
               /\ Len(Top'.listeners_at_start) = result.total
               /\ result.invoked \in 1..Len(Top'.listeners_at_start)
      ]_vars

\* a fire of the realized signal was aborted by its second listener, a
\* bound method that the index of its object lists
C27_Witness ==
    /\ stack = <<>>
    /\ result.op = "fire"
    /\ result.status \in Errors
    /\ result.value = 3
    /\ result.invoked = 2
    /\ Len(sigs) = 3
    /\ sigs[3].listeners[2] = listenerinfo(m1, FALSE)
    /\ obj_listeners["r1"].has
    /\ m1 \in DOMAIN obj_listeners["r1"].map
    /\ obj_signals["a"].has

(***************************************************************************)
(* The declaration and the signals realized from it, checked under         *)
(* SpecTemplate.                                                           *)
(***************************************************************************)
\* C28: a connect or disconnect on the declaration changes no realized
\* signal and no cache; a signal realized afterwards holds the adapter of
\* the decorated callable and nothing else, whatever the declaration's
\* listener sequence holds by then; no operation on a realized signal, and
\* no realization, changes the declaration.
C28_RealizedSignalsIgnoreTemplateListeners ==
    [][ /\ sigs'[D] # sigs[D] =>
               /\ Len(sigs') = Len(sigs)
               /\ \A s \in Realized : sigs'[s] = sigs[s]
               /\ obj_signals' = obj_signals
        /\ Len(sigs') > Len(sigs) =>
               /\ sigs'[D] = sigs[D]
               /\ \A s \in Realized : sigs'[s] = sigs[s]
               /\ result'.op = "get"
               /\ \E o \in Instances :
                      sigs'[Len(sigs')].listeners =
                          << [listener |-> [kind |-> "boundmethod", self |-> o,
                                            func |-> on_foo],
                              pass_signal |-> FALSE] >>
        /\ (\E s \in Realized : sigs'[s] # sigs[s]) => sigs'[D] = sigs[D]
        /\ sigs'[D].first_responder = on_foo
      ]_vars

\* b's signal has just been realized, after the first responder had been
\* disconnected from the declaration and h connected to it, and after a's
\* signal had been realized and changed
C28_Witness ==
    /\ result.op = "get"
    /\ result.value = 3
    /\ IsRealized(D, "a")
    /\ IsRealized(D, "b")
    /\ SignalOf(D, "b") = 3
    /\ sigs[D].listeners = <<listenerinfo(h, TRUE)>>
    /\ sigs[2].listeners = <<listenerinfo(h, FALSE)>>
    /\ sigs[3].listeners = <<listenerinfo(Adapter(D, "b"), FALSE)>>

=============================================================================
